---- MODULE Spec2Model ----
(***************************************************************************)
(* State-machine model of the MessagePack encoder of                       *)
(* src/src/core/encode.rs: the low-level value writers, the                *)
(* efficient-representation selectors, the error taxonomy, and the         *)
(* serialize::Encoder driven by nested callbacks.                          *)
(*                                                                         *)
(* Integers.  TLC's integers are 32 bits wide, the program's are up to 64. *)
(* A value of an n-byte Rust integer type is therefore the sequence of its *)
(* n base-256 digits, least significant first (x[i] weighs 256^(i-1)), in  *)
(* two's complement for the signed types.  A cast `as` truncates or        *)
(* extends the digits, a comparison compares them from the top, and the    *)
(* big-endian wire order is the digits reversed.                           *)
(***************************************************************************)
EXTENDS Integers, Sequences, FiniteSets, TLC

VARIABLES wr, enc, stack, log, res, calls

vars == <<wr, enc, stack, log, res, calls>>

-----------------------------------------------------------------------------
(* Bounds of the model.                                                    *)

\* Free-function writer calls made on one sink.
MaxWrites == 1
\* Value-level Encoder calls (leaves, composites, options) in one call tree.
MaxEmits == 3
\* Largest number of bytes a failing sink accepts before it fails.
MaxCap == 3

-----------------------------------------------------------------------------
(* Fixed-width integers as digit sequences.                                *)

\* Digit i (weight 256^(i-1)) of the two's-complement form of the integer n.
Digit(n, i) == IF i <= 4 THEN (n \div (256 ^ (i - 1))) % 256
               ELSE IF n < 0 THEN 255 ELSE 0

\* The w-byte value of the literal n (a literal of the source that fits TLC).
Lit(n, w) == [i \in 1..w |-> Digit(n, i)]

\* The source's literal 4294967296 as a u64.
Lit4294967296 == <<0, 0, 0, 0, 1, 0, 0, 0>>

Reverse(s) == [i \in 1..Len(s) |-> s[Len(s) + 1 - i]]

\* Unsigned comparison of two values of the same width.
ULt(a, b) == \E i \in 1..Len(a) : /\ a[i] < b[i]
                                  /\ \A j \in (i + 1)..Len(a) : a[j] = b[j]

\* Signed comparison: the sign bit inverted orders two's complement values.
Bias(a) == [a EXCEPT ![Len(a)] = (@ + 128) % 256]
SLt(a, b) == ULt(Bias(a), Bias(b))
SLe(a, b) == a = b \/ SLt(a, b)

\* Rust `as` to a narrower integer type: the low w bytes.
Trunc(a, w) == SubSeq(a, 1, w)
\* Rust `as` from an unsigned type to a wider type: zero extension.
ZeroExt(a, w) == [i \in 1..w |-> IF i <= Len(a) THEN a[i] ELSE 0]
\* Rust `as` from a signed type to a wider type: sign extension.
SignExt(a, w) == [i \in 1..w |-> IF i <= Len(a) THEN a[i]
                                 ELSE IF a[Len(a)] >= 128 THEN 255 ELSE 0]

\* The numeric value of a u8 and of an i8.
U8Val(a) == a[1]
I8Val(a) == IF a[1] >= 128 THEN a[1] - 256 ELSE a[1]

RECURSIVE BitOr(_, _)
BitOr(a, b) == IF a = 0 /\ b = 0 THEN 0
               ELSE (IF a % 2 = 1 \/ b % 2 = 1 THEN 1 ELSE 0)
                    + 2 * BitOr(a \div 2, b \div 2)

-----------------------------------------------------------------------------
(* Markers.                                                                *)

\* A Marker value: its variant and, for the variants that carry one, the
\* u8 / i8 payload as a number.
Mk(tag, v) == [tag |-> tag, v |-> v]
\* The unit value () returned by the writers that return no marker.
Unit == Mk("()", 0)

\* Marker::to_u8: the byte of each variant.
to_u8(m) ==
    CASE m.tag = "PositiveFixnum" -> m.v
      [] m.tag = "NegativeFixnum" -> m.v % 256
      [] m.tag = "FixedString" -> BitOr(160, m.v)
      [] m.tag = "FixedArray" -> BitOr(144, m.v)
      [] m.tag = "FixedMap" -> BitOr(128, m.v)
      [] m.tag = "Null" -> 192
      [] m.tag = "False" -> 194
      [] m.tag = "True" -> 195
      [] m.tag = "Bin8" -> 196
      [] m.tag = "Bin16" -> 197
      [] m.tag = "Bin32" -> 198
      [] m.tag = "Ext8" -> 199
      [] m.tag = "Ext16" -> 200
      [] m.tag = "Ext32" -> 201
      [] m.tag = "F32" -> 202
      [] m.tag = "F64" -> 203
      [] m.tag = "U8" -> 204
      [] m.tag = "U16" -> 205
      [] m.tag = "U32" -> 206
      [] m.tag = "U64" -> 207
      [] m.tag = "I8" -> 208
      [] m.tag = "I16" -> 209
      [] m.tag = "I32" -> 210
      [] m.tag = "I64" -> 211
      [] m.tag = "FixExt1" -> 212
      [] m.tag = "FixExt2" -> 213
      [] m.tag = "FixExt4" -> 214
      [] m.tag = "FixExt8" -> 215
      [] m.tag = "FixExt16" -> 216
      [] m.tag = "Str8" -> 217
      [] m.tag = "Str16" -> 218
      [] m.tag = "Str32" -> 219
      [] m.tag = "Array16" -> 220
      [] m.tag = "Array32" -> 221
      [] m.tag = "Map16" -> 222
      [] m.tag = "Map32" -> 223

-----------------------------------------------------------------------------
(* The sink and the results of a call.                                     *)

\* An error value: its outermost kind and the I/O failure it wraps.
Error(kind, io) == [kind |-> kind, io |-> io]
NoError == Error("none", "none")

\* Result of a call: the sink afterwards, Ok(ret) or Err(err), and the
\* marker the call constructed (Unit when it constructed none).
Ok(w, ret, built) == [wr |-> w, ok |-> TRUE, err |-> NoError, ret |-> ret, built |-> built]
Err(w, err, built) == [wr |-> w, ok |-> FALSE, err |-> err, ret |-> Unit, built |-> built]

\* io::Write::write_all on the sink: an unbounded sink accepts everything; a
\* bounded one accepts its next `room` bytes and then fails with its I/O
\* error, keeping what it accepted.  An empty buffer never fails.
accepts(w, bytes) == ~w.bounded \/ Len(bytes) <= w.room
take(w, bytes, n) == [w EXCEPT !.buf = @ \o SubSeq(bytes, 1, n),
                               !.room = IF w.bounded THEN @ - n ELSE @]
write_all(w, bytes) ==
    IF accepts(w, bytes) THEN Ok(take(w, bytes, Len(bytes)), Unit, Unit)
    ELSE Err(take(w, bytes, w.room), Error("io::Error", w.fault), Unit)

\* byteorder's WriteBytesExt: write_u8 / write_i8 write the byte, write_u16 ..
\* write_f64::<BigEndian> write the value's bytes most significant first;
\* an I/O failure comes back as byteorder::Error::Io.
byteorder_io(r) == IF r.ok THEN r ELSE Err(r.wr, Error("byteorder::Error::Io", r.err.io), Unit)
byteorder_write(w, val) == byteorder_io(write_all(w, Reverse(val)))

-----------------------------------------------------------------------------
(* The error taxonomy.  An operator `wrap_X(e)` is the constructor X(e) of *)
(* the source applied to a WriteError (a panic passes through).            *)

\* From<byteorder::Error> for WriteError.
From_byteorder_WriteError(err) ==
    IF err.kind = "byteorder::Error::UnexpectedEOF"
    THEN Error("panic: not implemented", "none")
    ELSE Error("WriteError", err.io)

wrap_MarkerWriteError(e) ==
    IF e.kind = "WriteError" THEN Error("MarkerWriteError", e.io) ELSE e
wrap_FixedValueWriteError(e) ==
    IF e.kind = "WriteError" THEN Error("FixedValueWriteError", e.io) ELSE e
wrap_InvalidDataWrite(e) ==
    IF e.kind = "WriteError" THEN Error("InvalidDataWrite", e.io) ELSE e

\* From<byteorder::Error> for MarkerWriteError.
From_byteorder_MarkerWriteError(err) == wrap_MarkerWriteError(From_byteorder_WriteError(err))

\* From<MarkerWriteError> for ValueWriteError.
From_MarkerWriteError_ValueWriteError(err) ==
    IF err.kind = "MarkerWriteError" THEN Error("InvalidMarkerWrite", err.io) ELSE err

\* From<FixedValueWriteError> for ValueWriteError.
From_FixedValueWriteError_ValueWriteError(err) ==
    IF err.kind = "FixedValueWriteError" THEN Error("InvalidMarkerWrite", err.io) ELSE err

-----------------------------------------------------------------------------
(* Primitive writers.                                                      *)

\* .map_err(|err| From::from(err)) of write_marker.
marker_map_err(r, marker) ==
    IF r.ok THEN Ok(r.wr, Unit, marker)
    ELSE Err(r.wr, From_byteorder_MarkerWriteError(r.err), marker)

write_marker(w, marker) == marker_map_err(byteorder_write(w, <<to_u8(marker)>>), marker)

\* .map_err(|err| FixedValueWriteError(From::from(err))) of write_fixval.
fixval_map_err(r, marker) ==
    IF r.ok THEN Ok(r.wr, Unit, marker)
    ELSE Err(r.wr, wrap_FixedValueWriteError(From_byteorder_WriteError(r.err)), marker)

write_fixval(w, marker) == fixval_map_err(byteorder_write(w, <<to_u8(marker)>>), marker)

write_nil(w) == write_fixval(w, Mk("Null", 0))

write_bool(w, val) ==
    IF val THEN write_fixval(w, Mk("True", 0)) ELSE write_fixval(w, Mk("False", 0))

\* assert!(val < 128)
write_pfix(w, val) ==
    IF ~ULt(val, Lit(128, 1)) THEN Err(w, Error("panic: assertion failed", "none"), Unit)
    ELSE write_fixval(w, Mk("PositiveFixnum", U8Val(val)))

\* assert!(-32 <= val && val < 0)
write_nfix(w, val) ==
    IF ~(SLe(Lit(-32, 1), val) /\ SLt(val, Lit(0, 1)))
    THEN Err(w, Error("panic: assertion failed", "none"), Unit)
    ELSE write_fixval(w, Mk("NegativeFixnum", I8Val(val)))

\* The function make_write_data_fn! generates: the payload through
\* byteorder, any failure as ValueWriteError::InvalidDataWrite.
\* The match of make_write_data_fn! reporting the marker phase.
data_match_as_marker(r) ==
    IF r.ok THEN Ok(r.wr, Unit, Unit)
    ELSE Err(r.wr, From_MarkerWriteError_ValueWriteError(
                       From_byteorder_MarkerWriteError(r.err)), Unit)

data_match(r) ==
    IF r.ok THEN Ok(r.wr, Unit, Unit)
    ELSE Err(r.wr, wrap_InvalidDataWrite(From_byteorder_WriteError(r.err)), Unit)

\* make_write_data_fn! writing the payload only if the sink takes all of it.
make_write_data_fn_all_or_nothing(w, val) ==
    IF accepts(w, Reverse(val)) THEN data_match(byteorder_write(w, val))
    ELSE Err(w, Error("InvalidDataWrite", w.fault), Unit)

make_write_data_fn(w, val) == data_match(byteorder_write(w, val))

write_data_u8(w, val) == make_write_data_fn(w, val)
write_data_u16(w, val) == make_write_data_fn(w, val)
write_data_u32(w, val) == make_write_data_fn(w, val)
write_data_u64(w, val) == make_write_data_fn(w, val)
write_data_i8(w, val) == make_write_data_fn(w, val)
write_data_i16(w, val) == make_write_data_fn(w, val)
write_data_i32(w, val) == make_write_data_fn(w, val)
write_data_i64(w, val) == make_write_data_fn(w, val)
write_data_f32(w, val) == make_write_data_fn(w, val)
write_data_f64(w, val) == make_write_data_fn(w, val)

\* try!(m) of a function returning ValueWriteError, for m the result of
\* write_marker and of write_fixval: the error converted by From.
try_marker(m) ==
    IF m.ok THEN m ELSE Err(m.wr, From_MarkerWriteError_ValueWriteError(m.err), m.built)
try_fixval(m) ==
    IF m.ok THEN m ELSE Err(m.wr, From_FixedValueWriteError_ValueWriteError(m.err), m.built)

\* try!(m); d  --  the statements d that follow a try!: they run on the
\* sink m left if m succeeded, else m's error is returned.
and_then(m, d) == IF ~m.ok THEN m ELSE [d EXCEPT !.built = m.built]

\* write_u8 shrinking a value below 128 to its fixnum.
write_u8_shrinking(w, val) ==
    IF ULt(val, Lit(128, 1))
    THEN try_fixval(write_fixval(w, Mk("PositiveFixnum", U8Val(val))))
    ELSE and_then(try_marker(write_marker(w, Mk("U8", 0))),
                  write_data_u8(write_marker(w, Mk("U8", 0)).wr, val))

write_u8(w, val) ==
    and_then(try_marker(write_marker(w, Mk("U8", 0))),
             write_data_u8(write_marker(w, Mk("U8", 0)).wr, val))

write_u16(w, val) ==
    and_then(try_marker(write_marker(w, Mk("U16", 0))),
             write_data_u16(write_marker(w, Mk("U16", 0)).wr, val))

write_u32(w, val) ==
    and_then(try_marker(write_marker(w, Mk("U32", 0))),
             write_data_u32(write_marker(w, Mk("U32", 0)).wr, val))

write_u64(w, val) ==
    and_then(try_marker(write_marker(w, Mk("U64", 0))),
             write_data_u64(write_marker(w, Mk("U64", 0)).wr, val))

write_i8(w, val) ==
    and_then(try_marker(write_marker(w, Mk("I8", 0))),
             write_data_i8(write_marker(w, Mk("I8", 0)).wr, val))

write_i16(w, val) ==
    and_then(try_marker(write_marker(w, Mk("I16", 0))),
             write_data_i16(write_marker(w, Mk("I16", 0)).wr, val))

write_i32(w, val) ==
    and_then(try_marker(write_marker(w, Mk("I32", 0))),
             write_data_i32(write_marker(w, Mk("I32", 0)).wr, val))

write_i64(w, val) ==
    and_then(try_marker(write_marker(w, Mk("I64", 0))),
             write_data_i64(write_marker(w, Mk("I64", 0)).wr, val))

write_f32(w, val) ==
    and_then(try_marker(write_marker(w, Mk("F32", 0))),
             write_data_f32(write_marker(w, Mk("F32", 0)).wr, val))

write_f64(w, val) ==
    and_then(try_marker(write_marker(w, Mk("F64", 0))),
             write_data_f64(write_marker(w, Mk("F64", 0)).wr, val))

\* r.and(Ok(marker)), r.map(|_| marker), and `try!(r); Ok(marker)`: the
\* marker on success, r's error otherwise.
and_marker(r, marker) == IF r.ok THEN Ok(r.wr, marker, r.built) ELSE r

-----------------------------------------------------------------------------
(* The efficient-representation selectors.                                 *)

\* let marker = ..; try!(write_fixval(wr, marker)); Ok(marker)
fixval_form(w, marker) == and_marker(try_fixval(write_fixval(w, marker)), marker)

\* write_uint with its first threshold off by one: 128 as a fixnum.
write_uint_inclusive(w, val) ==
    IF ~ULt(Lit(128, 8), val) THEN fixval_form(w, Mk("PositiveFixnum", U8Val(Trunc(val, 1))))
    ELSE IF ULt(val, Lit(256, 8)) THEN and_marker(write_u8(w, Trunc(val, 1)), Mk("U8", 0))
    ELSE IF ULt(val, Lit(65536, 8)) THEN and_marker(write_u16(w, Trunc(val, 2)), Mk("U16", 0))
    ELSE IF ULt(val, Lit4294967296) THEN and_marker(write_u32(w, Trunc(val, 4)), Mk("U32", 0))
    ELSE and_marker(write_u64(w, val), Mk("U64", 0))

write_uint(w, val) ==
    IF ULt(val, Lit(128, 8)) THEN fixval_form(w, Mk("PositiveFixnum", U8Val(Trunc(val, 1))))
    ELSE IF ULt(val, Lit(256, 8)) THEN and_marker(write_u8(w, Trunc(val, 1)), Mk("U8", 0))
    ELSE IF ULt(val, Lit(65536, 8)) THEN and_marker(write_u16(w, Trunc(val, 2)), Mk("U16", 0))
    ELSE IF ULt(val, Lit4294967296) THEN and_marker(write_u32(w, Trunc(val, 4)), Mk("U32", 0))
    ELSE and_marker(write_u64(w, val), Mk("U64", 0))

\* write_sint with its first branch ending below zero: 0 as an I8.
write_sint_negative_only(w, val) ==
    IF SLe(Lit(-32, 8), val) /\ SLt(val, Lit(0, 8))
    THEN fixval_form(w, Mk("NegativeFixnum", I8Val(Trunc(val, 1))))
    ELSE IF SLe(Lit(-128, 8), val) /\ SLt(val, Lit(128, 8))
    THEN and_marker(write_i8(w, Trunc(val, 1)), Mk("I8", 0))
    ELSE IF SLe(Lit(-32768, 8), val) /\ SLt(val, Lit(32768, 8))
    THEN and_marker(write_i16(w, Trunc(val, 2)), Mk("I16", 0))
    ELSE IF SLe(Lit(-2147483647 - 1, 8), val) /\ SLe(val, Lit(2147483647, 8))
    THEN and_marker(write_i32(w, Trunc(val, 4)), Mk("I32", 0))
    ELSE and_marker(write_i64(w, val), Mk("I64", 0))

write_sint(w, val) ==
    IF SLe(Lit(-32, 8), val) /\ SLe(val, Lit(0, 8))
    THEN fixval_form(w, Mk("NegativeFixnum", I8Val(Trunc(val, 1))))
    ELSE IF SLe(Lit(-128, 8), val) /\ SLt(val, Lit(128, 8))
    THEN and_marker(write_i8(w, Trunc(val, 1)), Mk("I8", 0))
    ELSE IF SLe(Lit(-32768, 8), val) /\ SLt(val, Lit(32768, 8))
    THEN and_marker(write_i16(w, Trunc(val, 2)), Mk("I16", 0))
    ELSE IF SLe(Lit(-2147483647 - 1, 8), val) /\ SLe(val, Lit(2147483647, 8))
    THEN and_marker(write_i32(w, Trunc(val, 4)), Mk("I32", 0))
    ELSE and_marker(write_i64(w, val), Mk("I64", 0))

\* try!(write_data_*(wr, val)) after the result m of the statements before.
then_data(m, val) == IF ~m.ok THEN m ELSE and_then(m, make_write_data_fn(m.wr, val))

\* try!(write_marker(wr, marker)); write_data_*(wr, len as _).map(|_| marker)
\* with the length cast to k bytes.
len_form(w, marker, len, k) ==
    and_marker(then_data(try_marker(write_marker(w, marker)), Trunc(len, k)), marker)

write_str_len(w, len) ==
    IF ULt(len, Lit(32, 4)) THEN fixval_form(w, Mk("FixedString", U8Val(Trunc(len, 1))))
    ELSE IF ULt(len, Lit(256, 4)) THEN len_form(w, Mk("Str8", 0), len, 1)
    ELSE IF ULt(len, Lit(65536, 4)) THEN len_form(w, Mk("Str16", 0), len, 2)
    ELSE len_form(w, Mk("Str32", 0), len, 4)

write_bin_len(w, len) ==
    IF ULt(len, Lit(256, 4)) THEN len_form(w, Mk("Bin8", 0), len, 1)
    ELSE IF ULt(len, Lit(65536, 4)) THEN len_form(w, Mk("Bin16", 0), len, 2)
    ELSE len_form(w, Mk("Bin32", 0), len, 4)

write_array_len(w, len) ==
    IF ULt(len, Lit(16, 4)) THEN fixval_form(w, Mk("FixedArray", U8Val(Trunc(len, 1))))
    ELSE IF ULt(len, Lit(65536, 4)) THEN len_form(w, Mk("Array16", 0), len, 2)
    ELSE len_form(w, Mk("Array32", 0), len, 4)

\* write_map_len with an 8-bit form, as the string and binary headers have.
write_map_len_with_8bit(w, len) ==
    IF ULt(len, Lit(16, 4)) THEN fixval_form(w, Mk("FixedMap", U8Val(Trunc(len, 1))))
    ELSE IF ULt(len, Lit(256, 4)) THEN len_form(w, Mk("Map16", 0), len, 1)
    ELSE IF ULt(len, Lit(65536, 4)) THEN len_form(w, Mk("Map16", 0), len, 2)
    ELSE len_form(w, Mk("Map32", 0), len, 4)

write_map_len(w, len) ==
    IF ULt(len, Lit(16, 4)) THEN fixval_form(w, Mk("FixedMap", U8Val(Trunc(len, 1))))
    ELSE IF ULt(len, Lit(65536, 4)) THEN len_form(w, Mk("Map16", 0), len, 2)
    ELSE len_form(w, Mk("Map32", 0), len, 4)

\* try!(write_marker(wr, marker)); try!(write_data_i8(wr, typeid)); Ok(marker)
fixext_form(w, marker, typeid) ==
    and_marker(then_data(try_marker(write_marker(w, marker)), typeid), marker)

\* try!(write_marker(wr, marker)); try!(write_data_*(wr, len as _));
\* try!(write_data_i8(wr, typeid)); Ok(marker)  with the length cast to k bytes.
ext_form(w, marker, len, k, typeid) ==
    and_marker(then_data(then_data(try_marker(write_marker(w, marker)), Trunc(len, k)),
                         typeid), marker)

\* write_ext_meta with the Ext8 arm taking 256 too.
write_ext_meta_inclusive(w, len, typeid) ==
    IF len = Lit(1, 4) THEN fixext_form(w, Mk("FixExt1", 0), typeid)
    ELSE IF len = Lit(2, 4) THEN fixext_form(w, Mk("FixExt2", 0), typeid)
    ELSE IF len = Lit(4, 4) THEN fixext_form(w, Mk("FixExt4", 0), typeid)
    ELSE IF len = Lit(8, 4) THEN fixext_form(w, Mk("FixExt8", 0), typeid)
    ELSE IF len = Lit(16, 4) THEN fixext_form(w, Mk("FixExt16", 0), typeid)
    ELSE IF ~ULt(Lit(256, 4), len) THEN ext_form(w, Mk("Ext8", 0), len, 1, typeid)
    ELSE IF ULt(len, Lit(65536, 4)) THEN ext_form(w, Mk("Ext16", 0), len, 2, typeid)
    ELSE ext_form(w, Mk("Ext32", 0), len, 4, typeid)

write_ext_meta(w, len, typeid) ==
    IF len = Lit(1, 4) THEN fixext_form(w, Mk("FixExt1", 0), typeid)
    ELSE IF len = Lit(2, 4) THEN fixext_form(w, Mk("FixExt2", 0), typeid)
    ELSE IF len = Lit(4, 4) THEN fixext_form(w, Mk("FixExt4", 0), typeid)
    ELSE IF len = Lit(8, 4) THEN fixext_form(w, Mk("FixExt8", 0), typeid)
    ELSE IF len = Lit(16, 4) THEN fixext_form(w, Mk("FixExt16", 0), typeid)
    ELSE IF ULt(len, Lit(256, 4)) THEN ext_form(w, Mk("Ext8", 0), len, 1, typeid)
    ELSE IF ULt(len, Lit(65536, 4)) THEN ext_form(w, Mk("Ext16", 0), len, 2, typeid)
    ELSE ext_form(w, Mk("Ext32", 0), len, 4, typeid)

-----------------------------------------------------------------------------
(* serialize::Error and the Encoder's methods.  A method taking a callback *)
(* f is modelled by what it does before it calls f; the call of f is the   *)
(* frame the action pushes, and its return the frame's removal.            *)

\* From<FixedValueWriteError> for serialize::Error.
From_FixedValueWriteError_Error(err) ==
    IF err.kind = "FixedValueWriteError" THEN Error("InvalidFixedValueWrite", err.io) ELSE err

\* From<ValueWriteError> for serialize::Error.
From_ValueWriteError_Error(err) ==
    IF err.kind \in {"InvalidMarkerWrite", "InvalidDataWrite"}
    THEN Error("Unimplemented", "none") ELSE err

\* From<io::Error> for serialize::Error.
From_io_Error(err) == Error("Unimplemented", "none")

\* r.map_err(|err| From::from(err)) and try!(r), by the error type of r.
from_fixed(r) == IF r.ok THEN r ELSE Err(r.wr, From_FixedValueWriteError_Error(r.err), r.built)
from_value(r) == IF r.ok THEN r ELSE Err(r.wr, From_ValueWriteError_Error(r.err), r.built)
from_io(r) == IF r.ok THEN r ELSE Err(r.wr, From_io_Error(r.err), r.built)

\* try!(r); Ok(())
ok_unit(r) == IF r.ok THEN Ok(r.wr, Unit, r.built) ELSE r

emit_nil(w) == from_fixed(write_nil(w))

emit_bool(w, val) == from_fixed(write_bool(w, val))

emit_u64(w, val) == ok_unit(from_value(write_uint(w, val)))

emit_u8(w, val) == emit_u64(w, ZeroExt(val, 8))
emit_u16(w, val) == emit_u64(w, ZeroExt(val, 8))
emit_u32(w, val) == emit_u64(w, ZeroExt(val, 8))
emit_usize(w, val) == emit_u64(w, ZeroExt(val, 8))

emit_i64(w, val) == ok_unit(from_value(write_sint(w, val)))

emit_i8(w, val) == emit_i64(w, SignExt(val, 8))
emit_i16(w, val) == emit_i64(w, SignExt(val, 8))
emit_i32(w, val) == emit_i64(w, SignExt(val, 8))
emit_isize(w, val) == emit_i64(w, SignExt(val, 8))

emit_f32(w, val) == from_value(write_f32(w, val))
emit_f64(w, val) == from_value(write_f64(w, val))

\* try!(self.wr.write_all(val.as_bytes())) after the header's result h.
then_write_all(h, bytes) == IF ~h.ok THEN h ELSE and_then(h, from_io(write_all(h.wr, bytes)))

\* A str is the sequence of its UTF-8 bytes.  So that a str of 2^32 bytes
\* and more can be written down, an element 256 stands for a run of 2^32
\* bytes 0x78, in a str and in the sink that received it.
\* val.len(): the number of bytes of val, a usize.
str_len(val) ==
    [Lit(Cardinality({i \in DOMAIN val : val[i] < 256}), 8)
        EXCEPT ![5] = Cardinality({i \in DOMAIN val : val[i] = 256})]

emit_str(w, val) ==
    ok_unit(then_write_all(from_value(write_str_len(w, Trunc(str_len(val), 4))), val))

\* String::push(char): the UTF-8 encoding of the code point c.
utf8(c) ==
    IF c < 128 THEN <<c>>
    ELSE IF c < 2048 THEN <<192 + (c \div 64), 128 + (c % 64)>>
    ELSE IF c < 65536
    THEN <<224 + (c \div 4096), 128 + ((c \div 64) % 64), 128 + (c % 64)>>
    ELSE <<240 + (c \div 262144), 128 + ((c \div 4096) % 64), 128 + ((c \div 64) % 64),
           128 + (c % 64)>>

emit_char(w, val) == emit_str(w, utf8(val))

\* What a composite's method does before it calls f; len is a usize, cast
\* `as u32`.
emit_tuple(w, len) == ok_unit(from_value(write_array_len(w, Trunc(len, 4))))

emit_struct(w, len) == emit_tuple(w, len)

emit_tuple_struct(w, len) == emit_tuple(w, len)

\* emit_seq checking len (the source's TODO): an error when it exceeds u32.
emit_seq_checked(w, len) ==
    IF Trunc(len, 4) \o <<0, 0, 0, 0>> # len THEN Err(w, Error("Unimplemented", "none"), Unit)
    ELSE ok_unit(from_value(write_array_len(w, Trunc(len, 4))))

emit_seq(w, len) == ok_unit(from_value(write_array_len(w, Trunc(len, 4))))

emit_map(w, len) == ok_unit(from_value(write_map_len(w, Trunc(len, 4))))

\* The per-element wrappers and the option wrappers only call f(self).
emit_struct_field(w, idx) == Ok(w, Unit, Unit)
emit_tuple_arg(w, idx) == Ok(w, Unit, Unit)
emit_tuple_struct_arg(w, idx) == Ok(w, Unit, Unit)
emit_seq_elt(w, idx) == Ok(w, Unit, Unit)
emit_map_elt_key(w, idx) == Ok(w, Unit, Unit)
emit_map_elt_val(w, idx) == Ok(w, Unit, Unit)
emit_option(w) == Ok(w, Unit, Unit)
\* emit_option_some writing a presence byte before the value.
emit_option_some_tagged(w) == from_io(write_all(w, <<195>>))

emit_option_some(w) == Ok(w, Unit, Unit)

emit_option_none(w) == emit_nil(w)

-----------------------------------------------------------------------------
(* Inputs.  The values on both sides of every threshold of the selectors,  *)
(* and one or two values for each fixed-width writer.                      *)

\* Inputs(op): the arguments the call op is made with, integers as their
\* bytes, least significant first.  write_ext_meta takes (len, typeid) pairs;
\* the floats are the bit patterns of 1.0f32 and -2.0f64; the chars are 'a',
\* e-acute, the euro sign and U+1F600; the strs "", "a", "bb" and 32 bytes,
\* and the long str 2^32 bytes 0x78 followed by "ab";
\* "len" is the declared length of a composite (usize): 0, 2, 16, 2^32 + 2.
\* The "element" inputs are those of a call made from an element's callback.
Inputs(op) ==
    CASE op = "write_uint" ->
            { Lit(127, 8), Lit(128, 8), Lit(255, 8), Lit(256, 8), Lit(65535, 8), Lit(65536, 8),
            <<255, 255, 255, 255, 0, 0, 0, 0>>, Lit4294967296, <<255, 255, 255, 255, 255, 255,
            255, 255>> }
      [] op = "write_sint" ->
            { Lit(-33, 8), Lit(-32, 8), Lit(-1, 8), Lit(0, 8), Lit(1, 8), Lit(127, 8), Lit(128,
            8), Lit(-128, 8), Lit(-129, 8), Lit(32767, 8), Lit(32768, 8), Lit(-32768, 8),
            Lit(-32769, 8), Lit(2147483647, 8), <<0, 0, 0, 128, 0, 0, 0, 0>>, Lit(-2147483647 -
            1, 8), <<255, 255, 255, 127, 255, 255, 255, 255>> }
      [] op = "write_str_len" ->
            { Lit(31, 4), Lit(32, 4), Lit(255, 4), Lit(256, 4), Lit(65535, 4), Lit(65536, 4) }
      [] op = "write_bin_len" ->
            { Lit(255, 4), Lit(256, 4), Lit(65535, 4), Lit(65536, 4) }
      [] op = "write_array_len" ->
            { Lit(15, 4), Lit(16, 4), Lit(65535, 4), <<255, 255, 255, 255>> }
      [] op = "write_map_len" ->
            { Lit(15, 4), Lit(16, 4), Lit(65535, 4), Lit(65536, 4) }
      [] op = "write_ext_meta" ->
            { <<Lit(0, 4), Lit(5, 1)>>, <<Lit(1, 4), Lit(5, 1)>>, <<Lit(2, 4), Lit(-1, 1)>>,
            <<Lit(3, 4), Lit(5, 1)>>, <<Lit(4, 4), Lit(127, 1)>>, <<Lit(8, 4), Lit(-128, 1)>>,
            <<Lit(16, 4), Lit(5, 1)>>, <<Lit(255, 4), Lit(5, 1)>>, <<Lit(256, 4), Lit(-1, 1)>>,
            <<Lit(65535, 4), Lit(5, 1)>>, <<Lit(65536, 4), Lit(-1, 1)>> }
      [] op = "write_pfix" ->
            { Lit(127, 1), Lit(128, 1) }
      [] op = "write_nfix" ->
            { Lit(-32, 1), Lit(-1, 1), Lit(0, 1) }
      [] op = "write_u8" ->
            { Lit(42, 1), Lit(146, 1) }
      [] op = "write_u16" ->
            { Lit(5, 2), Lit(258, 2) }
      [] op = "write_u32" ->
            { Lit(5, 4), Lit(16909060, 4) }
      [] op = "write_u64" ->
            { Lit(5, 8), <<8, 7, 6, 5, 4, 3, 2, 1>> }
      [] op = "write_i8" ->
            { Lit(-18, 1), Lit(42, 1) }
      [] op = "write_i16" ->
            { Lit(-2, 2) }
      [] op = "write_i32" ->
            { Lit(-1, 4), Lit(-16909060, 4) }
      [] op = "write_i64" ->
            { Lit(-1, 8), <<0, 0, 0, 0, 0, 0, 0, 128>> }
      [] op = "write_f32" ->
            { <<0, 0, 128, 63>> }
      [] op = "write_f64" ->
            { <<0, 0, 0, 0, 0, 0, 0, 192>> }
      [] op = "emit_u8" ->
            { Lit(5, 1), Lit(200, 1) }
      [] op = "emit_u16" ->
            { Lit(5, 2), Lit(300, 2) }
      [] op = "emit_u32" ->
            { Lit(5, 4), Lit(70000, 4) }
      [] op = "emit_u64" ->
            { Lit(5, 8), Lit4294967296 }
      [] op = "emit_usize" ->
            { Lit(5, 8), Lit(200, 8) }
      [] op = "emit_i8" ->
            { Lit(-1, 1), Lit(5, 1), Lit(-100, 1) }
      [] op = "emit_i16" ->
            { Lit(-1, 2), Lit(5, 2), Lit(-200, 2) }
      [] op = "emit_i32" ->
            { Lit(-1, 4), Lit(100, 4), Lit(-70000, 4) }
      [] op = "emit_i64" ->
            { Lit(-1, 8), Lit(0, 8), <<0, 0, 0, 0, 0, 0, 0, 128>> }
      [] op = "emit_isize" ->
            { Lit(-33, 8), Lit(40000, 8) }
      [] op = "emit_char" ->
            { 97, 233, 8364, 128512 }
      [] op = "emit_str" ->
            { <<>>, <<97>>, <<98, 98>>, [i \in 1..32 |-> 120] }
      [] op = "long emit_str" ->
            { <<256, 97, 98>> }
      [] op = "len" ->
            { Lit(0, 8), Lit(2, 8), Lit(16, 8), <<2, 0, 0, 0, 1, 0, 0, 0>> }
      [] op = "element emit_u8" ->
            { Lit(5, 1) }
      [] op = "element emit_str" ->
            { <<97>>, <<98, 98>> }
      [] op = "element len" ->
            { Lit(1, 8) }

\* The sinks the caller hands over.  A sink holds nothing or the bytes of
\* earlier output; it never fails, or it accepts n more bytes and then fails
\* with an I/O error (WriteZero, BrokenPipe).
Sinks ==
    { [buf |-> b, bounded |-> FALSE, room |-> 0, fault |-> "none"] :
            b \in { <<>>, <<195, 1>> } }
    \cup { [buf |-> b, bounded |-> TRUE, room |-> n, fault |-> f] :
            b \in { <<>>, <<195, 1>> }, n \in 0..MaxCap, f \in { "WriteZero", "BrokenPipe" } }

-----------------------------------------------------------------------------
(* The state machine.                                                      *)
(*   wr     the sink                                                       *)
(*   enc    whether an Encoder holds the sink (Encoder::new borrowed it    *)
(*          mutably; the free functions are then not callable on it)       *)
(*   stack  the Encoder callbacks that are running, innermost last         *)
(*   log    the Encoder calls made so far, in the order they were invoked  *)
(*   res    the last call: its name and arguments, the sink's bytes before *)
(*          it, and what it returned                                       *)
(*   calls  the number of calls made                                       *)

\* The caller owns a sink; it either calls the free functions on it or has
\* handed it to Encoder::new.
Init ==
    /\ wr \in Sinks
    /\ enc \in BOOLEAN
    /\ stack = <<>>
    /\ log = <<>>
    /\ res = [op |-> "none", val |-> <<>>, aux |-> <<>>, before |-> <<>>, room |-> 0,
              ok |-> TRUE, err |-> NoError, ret |-> Unit, built |-> Unit]
    /\ calls = 0

Panicked == res.err.kind \in {"panic: assertion failed", "panic: not implemented"}

\* The call op(val, aux) returned r.
Returned(op, val, aux, r) ==
    /\ wr' = r.wr
    /\ res' = [op |-> op, val |-> val, aux |-> aux, before |-> wr.buf, room |-> wr.room,
               ok |-> r.ok, err |-> r.err, ret |-> r.ret, built |-> r.built]
    /\ calls' = calls + 1

\* A free function is called on a sink no Encoder holds.
CanWrite == ~enc /\ calls < MaxWrites /\ ~Panicked

Call_write_nil ==
    /\ CanWrite
    /\ Returned("write_nil", <<>>, <<>>, write_nil(wr))
    /\ UNCHANGED <<enc, stack, log>>

Call_write_bool ==
    /\ CanWrite
    /\ \E val \in BOOLEAN :
          Returned("write_bool", IF val THEN <<1>> ELSE <<0>>, <<>>, write_bool(wr, val))
    /\ UNCHANGED <<enc, stack, log>>

Call_write_pfix ==
    /\ CanWrite
    /\ \E val \in Inputs("write_pfix") : Returned("write_pfix", val, <<>>, write_pfix(wr, val))
    /\ UNCHANGED <<enc, stack, log>>

Call_write_nfix ==
    /\ CanWrite
    /\ \E val \in Inputs("write_nfix") : Returned("write_nfix", val, <<>>, write_nfix(wr, val))
    /\ UNCHANGED <<enc, stack, log>>

Call_write_u8 ==
    /\ CanWrite
    /\ \E val \in Inputs("write_u8") : Returned("write_u8", val, <<>>, write_u8(wr, val))
    /\ UNCHANGED <<enc, stack, log>>

Call_write_u16 ==
    /\ CanWrite
    /\ \E val \in Inputs("write_u16") : Returned("write_u16", val, <<>>, write_u16(wr, val))
    /\ UNCHANGED <<enc, stack, log>>

Call_write_u32 ==
    /\ CanWrite
    /\ \E val \in Inputs("write_u32") : Returned("write_u32", val, <<>>, write_u32(wr, val))
    /\ UNCHANGED <<enc, stack, log>>

Call_write_u64 ==
    /\ CanWrite
    /\ \E val \in Inputs("write_u64") : Returned("write_u64", val, <<>>, write_u64(wr, val))
    /\ UNCHANGED <<enc, stack, log>>

Call_write_i8 ==
    /\ CanWrite
    /\ \E val \in Inputs("write_i8") : Returned("write_i8", val, <<>>, write_i8(wr, val))
    /\ UNCHANGED <<enc, stack, log>>

Call_write_i16 ==
    /\ CanWrite
    /\ \E val \in Inputs("write_i16") : Returned("write_i16", val, <<>>, write_i16(wr, val))
    /\ UNCHANGED <<enc, stack, log>>

Call_write_i32 ==
    /\ CanWrite
    /\ \E val \in Inputs("write_i32") : Returned("write_i32", val, <<>>, write_i32(wr, val))
    /\ UNCHANGED <<enc, stack, log>>

Call_write_i64 ==
    /\ CanWrite
    /\ \E val \in Inputs("write_i64") : Returned("write_i64", val, <<>>, write_i64(wr, val))
    /\ UNCHANGED <<enc, stack, log>>

Call_write_f32 ==
    /\ CanWrite
    /\ \E val \in Inputs("write_f32") : Returned("write_f32", val, <<>>, write_f32(wr, val))
    /\ UNCHANGED <<enc, stack, log>>

Call_write_f64 ==
    /\ CanWrite
    /\ \E val \in Inputs("write_f64") : Returned("write_f64", val, <<>>, write_f64(wr, val))
    /\ UNCHANGED <<enc, stack, log>>

Call_write_uint ==
    /\ CanWrite
    /\ \E val \in Inputs("write_uint") : Returned("write_uint", val, <<>>, write_uint(wr, val))
    /\ UNCHANGED <<enc, stack, log>>

Call_write_sint ==
    /\ CanWrite
    /\ \E val \in Inputs("write_sint") : Returned("write_sint", val, <<>>, write_sint(wr, val))
    /\ UNCHANGED <<enc, stack, log>>

Call_write_str_len ==
    /\ CanWrite
    /\ \E len \in Inputs("write_str_len") : Returned("write_str_len", len, <<>>, write_str_len(wr, len))
    /\ UNCHANGED <<enc, stack, log>>

Call_write_bin_len ==
    /\ CanWrite
    /\ \E len \in Inputs("write_bin_len") : Returned("write_bin_len", len, <<>>, write_bin_len(wr, len))
    /\ UNCHANGED <<enc, stack, log>>

Call_write_array_len ==
    /\ CanWrite
    /\ \E len \in Inputs("write_array_len") :
          Returned("write_array_len", len, <<>>, write_array_len(wr, len))
    /\ UNCHANGED <<enc, stack, log>>

Call_write_map_len ==
    /\ CanWrite
    /\ \E len \in Inputs("write_map_len") : Returned("write_map_len", len, <<>>, write_map_len(wr, len))
    /\ UNCHANGED <<enc, stack, log>>

Call_write_ext_meta ==
    /\ CanWrite
    /\ \E a \in Inputs("write_ext_meta") :
          Returned("write_ext_meta", a[1], a[2], write_ext_meta(wr, a[1], a[2]))
    /\ UNCHANGED <<enc, stack, log>>

Writers ==
    \/ Call_write_nil
    \/ Call_write_bool
    \/ Call_write_pfix
    \/ Call_write_nfix
    \/ Call_write_u8
    \/ Call_write_u16
    \/ Call_write_u32
    \/ Call_write_u64
    \/ Call_write_i8
    \/ Call_write_i16
    \/ Call_write_i32
    \/ Call_write_i64
    \/ Call_write_f32
    \/ Call_write_f64
    \/ Call_write_uint
    \/ Call_write_sint
    \/ Call_write_str_len
    \/ Call_write_bin_len
    \/ Call_write_array_len
    \/ Call_write_map_len
    \/ Call_write_ext_meta

-----------------------------------------------------------------------------
(* The Encoder.  A frame of the stack is a callback that is running: the   *)
(* callback f of a composite (kind seq, tuple, struct, tuple_struct, map), *)
(* of emit_option (kind option), or of a wrapper (the other kinds), which  *)
(* encodes one value.  The callbacks are those serialize's Encodable       *)
(* implementations are made of: each element goes through the wrapper of   *)
(* its composite, a map's through key and val in turn, and a callback      *)
(* returns the first error it gets.                                        *)

CompositeKinds == { "seq", "tuple", "struct", "tuple_struct", "map" }
WrapperKinds == { "seq_elt", "tuple_arg", "tuple_struct_arg", "struct_field",
                  "map_elt_key", "map_elt_val", "option_some" }

Frame(kind, ev) == [kind |-> kind, n |-> 0, ev |-> ev]
Top == stack[Len(stack)]
Pop(stk) == SubSeq(stk, 1, Len(stk) - 1)

\* The log index of the innermost composite a call is made in, 0 if none.
RECURSIVE Enclosing(_)
Enclosing(stk) ==
    IF stk = <<>> THEN 0
    ELSE IF stk[Len(stk)].kind \in CompositeKinds THEN stk[Len(stk)].ev
    ELSE Enclosing(Pop(stk))

Event(op, val) == [op |-> op, val |-> val, at |-> Len(wr.buf), parent |-> Enclosing(stack)]

\* A value has been encoded: the wrappers and option callbacks around it
\* return, and the composite they were called from has one more element.
RECURSIVE Complete(_)
Complete(stk) ==
    IF stk = <<>> THEN <<>>
    ELSE IF stk[Len(stk)].kind \in CompositeKinds
    THEN [stk EXCEPT ![Len(stk)].n = @ + 1]
    ELSE Complete(Pop(stk))

\* A value may be encoded: the Encoder is fresh, or a wrapper's callback runs.
ValueSlot == \/ stack = <<>> /\ log = <<>>
             \/ stack # <<>> /\ Top.kind \in WrapperKinds
CanEmit == enc /\ res.ok /\ calls < MaxEmits /\ ValueSlot
AtTop == stack = <<>>

\* A method wrote what r says and, if that went well, called its callback.
Enter(op, val, kind, r, cost) ==
    /\ wr' = r.wr
    /\ res' = [op |-> op, val |-> val, aux |-> <<>>, before |-> wr.buf, room |-> wr.room,
               ok |-> r.ok, err |-> r.err, ret |-> r.ret, built |-> r.built]
    /\ calls' = calls + cost
    /\ log' = Append(log, Event(op, val))
    /\ stack' = IF r.ok THEN Append(stack, Frame(kind, Len(log) + 1)) ELSE <<>>
    /\ UNCHANGED enc

\* A method that takes no callback returned r.
Call(op, val, r, cost) ==
    /\ wr' = r.wr
    /\ res' = [op |-> op, val |-> val, aux |-> <<>>, before |-> wr.buf, room |-> wr.room,
               ok |-> r.ok, err |-> r.err, ret |-> r.ret, built |-> r.built]
    /\ calls' = calls + cost
    /\ log' = Append(log, Event(op, val))
    /\ stack' = IF r.ok THEN Complete(stack) ELSE <<>>
    /\ UNCHANGED enc

Enc_emit_nil == CanEmit /\ AtTop /\ Call("emit_nil", <<>>, emit_nil(wr), 1)

Enc_emit_bool ==
    /\ CanEmit /\ AtTop
    /\ \E val \in BOOLEAN : Call("emit_bool", IF val THEN <<1>> ELSE <<0>>, emit_bool(wr, val), 1)

Enc_emit_u8 ==
    /\ CanEmit
    /\ \E val \in IF AtTop THEN Inputs("emit_u8") ELSE Inputs("element emit_u8") :
          Call("emit_u8", val, emit_u8(wr, val), 1)

Enc_emit_u16 ==
    /\ CanEmit /\ AtTop
    /\ \E val \in Inputs("emit_u16") : Call("emit_u16", val, emit_u16(wr, val), 1)

Enc_emit_u32 ==
    /\ CanEmit /\ AtTop
    /\ \E val \in Inputs("emit_u32") : Call("emit_u32", val, emit_u32(wr, val), 1)

Enc_emit_u64 ==
    /\ CanEmit /\ AtTop
    /\ \E val \in Inputs("emit_u64") : Call("emit_u64", val, emit_u64(wr, val), 1)

Enc_emit_usize ==
    /\ CanEmit /\ AtTop
    /\ \E val \in Inputs("emit_usize") : Call("emit_usize", val, emit_usize(wr, val), 1)

Enc_emit_i8 ==
    /\ CanEmit /\ AtTop
    /\ \E val \in Inputs("emit_i8") : Call("emit_i8", val, emit_i8(wr, val), 1)

Enc_emit_i16 ==
    /\ CanEmit /\ AtTop
    /\ \E val \in Inputs("emit_i16") : Call("emit_i16", val, emit_i16(wr, val), 1)

Enc_emit_i32 ==
    /\ CanEmit /\ AtTop
    /\ \E val \in Inputs("emit_i32") : Call("emit_i32", val, emit_i32(wr, val), 1)

Enc_emit_i64 ==
    /\ CanEmit /\ AtTop
    /\ \E val \in Inputs("emit_i64") : Call("emit_i64", val, emit_i64(wr, val), 1)

Enc_emit_isize ==
    /\ CanEmit /\ AtTop
    /\ \E val \in Inputs("emit_isize") : Call("emit_isize", val, emit_isize(wr, val), 1)

Enc_emit_f32 ==
    /\ CanEmit /\ AtTop
    /\ \E val \in Inputs("write_f32") : Call("emit_f32", val, emit_f32(wr, val), 1)

Enc_emit_f64 ==
    /\ CanEmit /\ AtTop
    /\ \E val \in Inputs("write_f64") : Call("emit_f64", val, emit_f64(wr, val), 1)

Enc_emit_char ==
    /\ CanEmit /\ AtTop
    /\ \E val \in Inputs("emit_char") : Call("emit_char", <<val>>, emit_char(wr, val), 1)

\* The long str is encoded on the sinks that never fail.
Enc_emit_str ==
    /\ CanEmit
    /\ \E val \in IF ~AtTop THEN Inputs("element emit_str")
                  ELSE IF wr.bounded THEN Inputs("emit_str")
                  ELSE Inputs("emit_str") \cup Inputs("long emit_str") :
          Call("emit_str", val, emit_str(wr, val), 1)

Enc_emit_struct ==
    /\ CanEmit /\ AtTop
    /\ \E len \in Inputs("len") : Enter("emit_struct", len, "struct", emit_struct(wr, len), 1)

Enc_emit_tuple ==
    /\ CanEmit /\ AtTop
    /\ \E len \in Inputs("len") : Enter("emit_tuple", len, "tuple", emit_tuple(wr, len), 1)

Enc_emit_tuple_struct ==
    /\ CanEmit /\ AtTop
    /\ \E len \in Inputs("len") : Enter("emit_tuple_struct", len, "tuple_struct", emit_tuple_struct(wr, len), 1)

Enc_emit_seq ==
    /\ CanEmit
    /\ \E len \in IF AtTop THEN Inputs("len") ELSE Inputs("element len") :
          Enter("emit_seq", len, "seq", emit_seq(wr, len), 1)

Enc_emit_map ==
    /\ CanEmit
    /\ \E len \in IF AtTop THEN Inputs("len") ELSE Inputs("element len") :
          Enter("emit_map", len, "map", emit_map(wr, len), 1)

\* The callback of a composite of the given kind calls a wrapper.
InComposite(kind) == enc /\ res.ok /\ calls < MaxEmits /\ stack # <<>> /\ Top.kind = kind

Enc_emit_struct_field ==
    /\ InComposite("struct")
    /\ Enter("emit_struct_field", Lit(Top.n, 8), "struct_field",
             emit_struct_field(wr, Lit(Top.n, 8)), 0)

Enc_emit_tuple_arg ==
    /\ InComposite("tuple")
    /\ Enter("emit_tuple_arg", Lit(Top.n, 8), "tuple_arg",
             emit_tuple_arg(wr, Lit(Top.n, 8)), 0)

Enc_emit_tuple_struct_arg ==
    /\ InComposite("tuple_struct")
    /\ Enter("emit_tuple_struct_arg", Lit(Top.n, 8), "tuple_struct_arg",
             emit_tuple_struct_arg(wr, Lit(Top.n, 8)), 0)

Enc_emit_seq_elt ==
    /\ InComposite("seq")
    /\ Enter("emit_seq_elt", Lit(Top.n, 8), "seq_elt", emit_seq_elt(wr, Lit(Top.n, 8)), 0)

\* Top.n counts the key and val callbacks made: a key when it is even.
Enc_emit_map_elt_key ==
    /\ InComposite("map")
    /\ Top.n % 2 = 0
    /\ Enter("emit_map_elt_key", Lit(Top.n \div 2, 8), "map_elt_key",
             emit_map_elt_key(wr, Lit(Top.n \div 2, 8)), 0)

Enc_emit_map_elt_val ==
    /\ InComposite("map")
    /\ Top.n % 2 = 1
    /\ Enter("emit_map_elt_val", Lit(Top.n \div 2, 8), "map_elt_val",
             emit_map_elt_val(wr, Lit(Top.n \div 2, 8)), 0)

Enc_emit_option ==
    /\ CanEmit
    /\ Enter("emit_option", <<>>, "option", emit_option(wr), 1)

Enc_emit_option_none ==
    /\ enc /\ res.ok /\ stack # <<>> /\ Top.kind = "option"
    /\ Call("emit_option_none", <<>>, emit_option_none(wr), 0)

Enc_emit_option_some ==
    /\ InComposite("option")
    /\ Enter("emit_option_some", <<>>, "option_some", emit_option_some(wr), 0)

\* The callback of a composite returns Ok(()): the composite's method
\* returns that, and so do the wrappers it was called through.
Callback_returns ==
    /\ enc /\ res.ok /\ stack # <<>> /\ Top.kind \in CompositeKinds
    /\ stack' = Complete(Pop(stack))
    /\ UNCHANGED <<wr, enc, log, res, calls>>

Encoder ==
    \/ Enc_emit_nil
    \/ Enc_emit_bool
    \/ Enc_emit_u8
    \/ Enc_emit_u16
    \/ Enc_emit_u32
    \/ Enc_emit_u64
    \/ Enc_emit_usize
    \/ Enc_emit_i8
    \/ Enc_emit_i16
    \/ Enc_emit_i32
    \/ Enc_emit_i64
    \/ Enc_emit_isize
    \/ Enc_emit_f32
    \/ Enc_emit_f64
    \/ Enc_emit_char
    \/ Enc_emit_str
    \/ Enc_emit_struct
    \/ Enc_emit_struct_field
    \/ Enc_emit_tuple
    \/ Enc_emit_tuple_arg
    \/ Enc_emit_tuple_struct
    \/ Enc_emit_tuple_struct_arg
    \/ Enc_emit_option
    \/ Enc_emit_option_none
    \/ Enc_emit_option_some
    \/ Enc_emit_seq
    \/ Enc_emit_seq_elt
    \/ Enc_emit_map
    \/ Enc_emit_map_elt_key
    \/ Enc_emit_map_elt_val
    \/ Callback_returns

Next == Writers \/ Encoder

Spec == Init /\ [][Next]_vars

-----------------------------------------------------------------------------
(* Vocabulary of the properties.                                           *)

\* The bytes the last call appended.
Written == SubSeq(wr.buf, Len(res.before) + 1, Len(wr.buf))

\* A sink that holds nothing and never fails.
FreeSink == [buf |-> <<>>, bounded |-> FALSE, room |-> 0, fault |-> "none"]

\* The call op(val, aux) made on FreeSink.
Replay(op, val, aux) ==
    CASE op = "write_nil" -> write_nil(FreeSink)
      [] op = "write_bool" -> write_bool(FreeSink, val = <<1>>)
      [] op = "write_pfix" -> write_pfix(FreeSink, val)
      [] op = "write_nfix" -> write_nfix(FreeSink, val)
      [] op = "write_u8" -> write_u8(FreeSink, val)
      [] op = "write_u16" -> write_u16(FreeSink, val)
      [] op = "write_u32" -> write_u32(FreeSink, val)
      [] op = "write_u64" -> write_u64(FreeSink, val)
      [] op = "write_i8" -> write_i8(FreeSink, val)
      [] op = "write_i16" -> write_i16(FreeSink, val)
      [] op = "write_i32" -> write_i32(FreeSink, val)
      [] op = "write_i64" -> write_i64(FreeSink, val)
      [] op = "write_f32" -> write_f32(FreeSink, val)
      [] op = "write_f64" -> write_f64(FreeSink, val)
      [] op = "write_uint" -> write_uint(FreeSink, val)
      [] op = "write_sint" -> write_sint(FreeSink, val)
      [] op = "write_str_len" -> write_str_len(FreeSink, val)
      [] op = "write_bin_len" -> write_bin_len(FreeSink, val)
      [] op = "write_array_len" -> write_array_len(FreeSink, val)
      [] op = "write_map_len" -> write_map_len(FreeSink, val)
      [] op = "write_ext_meta" -> write_ext_meta(FreeSink, val, aux)
      [] op = "emit_nil" -> emit_nil(FreeSink)
      [] op = "emit_bool" -> emit_bool(FreeSink, val = <<1>>)
      [] op = "emit_u8" -> emit_u8(FreeSink, val)
      [] op = "emit_u16" -> emit_u16(FreeSink, val)
      [] op = "emit_u32" -> emit_u32(FreeSink, val)
      [] op = "emit_u64" -> emit_u64(FreeSink, val)
      [] op = "emit_usize" -> emit_usize(FreeSink, val)
      [] op = "emit_i8" -> emit_i8(FreeSink, val)
      [] op = "emit_i16" -> emit_i16(FreeSink, val)
      [] op = "emit_i32" -> emit_i32(FreeSink, val)
      [] op = "emit_i64" -> emit_i64(FreeSink, val)
      [] op = "emit_isize" -> emit_isize(FreeSink, val)
      [] op = "emit_f32" -> emit_f32(FreeSink, val)
      [] op = "emit_f64" -> emit_f64(FreeSink, val)
      [] op = "emit_char" -> emit_char(FreeSink, val[1])
      [] op = "emit_str" -> emit_str(FreeSink, val)
      [] op = "emit_struct" -> emit_struct(FreeSink, val)
      [] op = "emit_tuple" -> emit_tuple(FreeSink, val)
      [] op = "emit_tuple_struct" -> emit_tuple_struct(FreeSink, val)
      [] op = "emit_seq" -> emit_seq(FreeSink, val)
      [] op = "emit_map" -> emit_map(FreeSink, val)
      [] op = "emit_option_none" -> emit_option_none(FreeSink)
      [] OTHER -> Ok(FreeSink, Unit, Unit)

\* The whole wire form of the last call.
Wire == Replay(res.op, res.val, res.aux).wr.buf

\* v < 256^k for an unsigned v; v fits k bytes of two's complement.
Below(v, k) == \A i \in (k + 1)..Len(v) : v[i] = 0
FitsSigned(v, k) == \A i \in (k + 1)..Len(v) : v[i] = IF v[k] >= 128 THEN 255 ELSE 0
\* The low k bytes of v, most significant first.
BE(v, k) == [i \in 1..k |-> v[k + 1 - i]]

SelectorOps == { "write_uint", "write_sint", "write_str_len", "write_bin_len",
                 "write_array_len", "write_map_len", "write_ext_meta" }

ValueWriterOps ==
    { "write_u8", "write_u16", "write_u32", "write_u64", "write_i8", "write_i16",
      "write_i32", "write_i64", "write_f32", "write_f64" } \cup SelectorOps

CompositeOps == { "emit_seq", "emit_tuple", "emit_struct", "emit_tuple_struct", "emit_map" }
WrapperOps == { "emit_seq_elt", "emit_tuple_arg", "emit_tuple_struct_arg",
                "emit_struct_field", "emit_map_elt_key", "emit_map_elt_val",
                "emit_option", "emit_option_some" }

\* The fewest bytes of any integer form of the wire format that holds the
\* unsigned v: positive fixnum, uint 8/16/32/64.
MinUnsignedLen(v) ==
    IF Below(v, 1) /\ v[1] < 128 THEN 1
    ELSE IF Below(v, 1) THEN 2
    ELSE IF Below(v, 2) THEN 3
    ELSE IF Below(v, 4) THEN 5 ELSE 9

\* ... and that holds the signed v: for v >= 0 those forms, for v < 0 the
\* negative fixnum and int 8/16/32/64.
MinSignedLen(v) ==
    IF v[Len(v)] < 128 THEN MinUnsignedLen(v)
    ELSE IF FitsSigned(v, 1) /\ v[1] >= 224 THEN 1
    ELSE IF FitsSigned(v, 1) THEN 2
    ELSE IF FitsSigned(v, 2) THEN 3
    ELSE IF FitsSigned(v, 4) THEN 5 ELSE 9

\* The fewest bytes of any header form of its family that holds the length.
MinHeaderLen(op, len) ==
    CASE op = "write_str_len" ->
            IF Below(len, 1) /\ len[1] < 32 THEN 1 ELSE IF Below(len, 1) THEN 2
            ELSE IF Below(len, 2) THEN 3 ELSE 5
      [] op = "write_bin_len" ->
            IF Below(len, 1) THEN 2 ELSE IF Below(len, 2) THEN 3 ELSE 5
      [] op \in {"write_array_len", "write_map_len"} ->
            IF Below(len, 1) /\ len[1] < 16 THEN 1 ELSE IF Below(len, 2) THEN 3 ELSE 5
      [] op = "write_ext_meta" ->
            IF Below(len, 1) /\ len[1] \in {1, 2, 4, 8, 16} THEN 2
            ELSE IF Below(len, 1) THEN 3 ELSE IF Below(len, 2) THEN 4 ELSE 6

MinLen(op, val) ==
    IF op = "write_uint" THEN MinUnsignedLen(val)
    ELSE IF op = "write_sint" THEN MinSignedLen(val)
    ELSE MinHeaderLen(op, val)

-----------------------------------------------------------------------------
(* C1.  Every selecting writer writes the fewest bytes of any wire form    *)
(* that can represent its input; no value a 1-byte fixnum holds is written *)
(* in two or more bytes.  (write_sint(1) writes [0xd0, 0x01].)             *)
C1_minimal_form ==
    (res.op \in SelectorOps /\ res.ok) => Len(Written) = MinLen(res.op, res.val)

-----------------------------------------------------------------------------
(* C2.  write_uint(v) on a sink that does not fail writes, and returns the *)
(* marker of: the byte v for v < 128; [0xcc, v] for v < 256; 0xcd and 2    *)
(* big-endian bytes for v < 65536; 0xce and 4 for v < 2^32; else 0xcf and  *)
(* 8.                                                                      *)
C2_write_uint ==
    (res.op = "write_uint" /\ res.ok) =>
        IF Below(res.val, 1) /\ res.val[1] < 128
        THEN Written = <<res.val[1]>> /\ res.ret = Mk("PositiveFixnum", res.val[1])
        ELSE IF Below(res.val, 1)
        THEN Written = <<204, res.val[1]>> /\ res.ret = Mk("U8", 0)
        ELSE IF Below(res.val, 2)
        THEN Written = <<205>> \o BE(res.val, 2) /\ res.ret = Mk("U16", 0)
        ELSE IF Below(res.val, 4)
        THEN Written = <<206>> \o BE(res.val, 4) /\ res.ret = Mk("U32", 0)
        ELSE Written = <<207>> \o BE(res.val, 8) /\ res.ret = Mk("U64", 0)

\* write_uint(4294967296) wrote the U64 form after earlier output.
C2_witness ==
    /\ res.op = "write_uint" /\ res.ok /\ res.val = Lit4294967296
    /\ res.before = <<195, 1>>
    /\ wr.buf = <<195, 1, 207, 0, 0, 0, 1, 0, 0, 0, 0>>

-----------------------------------------------------------------------------
-----------------------------------------------------------------------------
(* C4.  A value writer whose encoding is `total` bytes long, on a sink     *)
(* that accepts N bytes and then fails: N = 0 gives InvalidMarkerWrite,    *)
(* 0 < N < total gives InvalidDataWrite, N >= total succeeds; the error    *)
(* wraps the sink's I/O failure.                                           *)
C4_phase_attribution ==
    (res.op \in ValueWriterOps) =>
        IF ~wr.bounded \/ res.room >= Len(Wire) THEN res.ok
        ELSE IF res.room = 0 THEN ~res.ok /\ res.err = Error("InvalidMarkerWrite", wr.fault)
        ELSE ~res.ok /\ res.err = Error("InvalidDataWrite", wr.fault)

\* write_ext_meta(256, -1), 4 bytes long, failed in its type id after the
\* sink took the marker and one byte of the length.
C4_witness ==
    /\ res.op = "write_ext_meta" /\ res.val = Lit(256, 4) /\ res.room = 2
    /\ Written = <<200, 1>>
    /\ res.err = Error("InvalidDataWrite", "BrokenPipe")

-----------------------------------------------------------------------------
(* C5.  When the sink fails during an Encoder operation, the error the     *)
(* emit call returns carries the sink's I/O failure and its phase, not a   *)
(* generic fallback kind.  (emit_u64 returns Error::Unimplemented.)        *)
C5_error_propagates ==
    (enc /\ ~res.ok) => res.err.io = wr.fault /\ res.err.kind # "Unimplemented"

-----------------------------------------------------------------------------
(* C6.  Every Marker a writer constructs lies in its documented domain     *)
(* (PositiveFixnum 0..127, NegativeFixnum -32..-1, FixedString < 32,       *)
(* FixedArray and FixedMap < 16), so no other in-domain marker has its     *)
(* byte.  (write_sint(0) constructs NegativeFixnum(0).)                    *)
InDomain(m) ==
    CASE m.tag = "PositiveFixnum" -> m.v \in 0..127
      [] m.tag = "NegativeFixnum" -> m.v \in (-32)..(-1)
      [] m.tag = "FixedString" -> m.v \in 0..31
      [] m.tag \in {"FixedArray", "FixedMap"} -> m.v \in 0..15
      [] OTHER -> m.v = 0

DomainMarkers ==
    {Mk("PositiveFixnum", v) : v \in 0..127} \cup {Mk("NegativeFixnum", v) : v \in (-32)..(-1)}
    \cup {Mk("FixedString", v) : v \in 0..31} \cup {Mk("FixedArray", v) : v \in 0..15}
    \cup {Mk("FixedMap", v) : v \in 0..15}
    \cup {Mk(t, 0) : t \in {"Null", "False", "True", "Bin8", "Bin16", "Bin32", "Ext8",
                            "Ext16", "Ext32", "F32", "F64", "U8", "U16", "U32", "U64",
                            "I8", "I16", "I32", "I64", "FixExt1", "FixExt2", "FixExt4",
                            "FixExt8", "FixExt16", "Str8", "Str16", "Str32", "Array16",
                            "Array32", "Map16", "Map32"}}

C6_markers_in_domain ==
    (res.built # Unit) =>
        /\ InDomain(res.built)
        /\ \A m \in DomainMarkers : m # res.built => to_u8(m) # to_u8(res.built)

-----------------------------------------------------------------------------
(* C7.  On a non-failing sink the Encoder's output is, call by call in the *)
(* order of the calls: for a composite the length header of its declared   *)
(* len, for a wrapper nothing, for a scalar its encoding; no element       *)
(* starts before the end of its composite's header.  (The header written   *)
(* for a declared len of 2^32 + 2 is that of 2.)                           *)

\* The bytes the i-th call of the log wrote before the next call.
Segment(i) ==
    SubSeq(wr.buf, log[i].at + 1, IF i < Len(log) THEN log[i + 1].at ELSE Len(wr.buf))

\* The length an array header (a map header) states, as a usize.
HeaderLen(h, fix, m16, m32) ==
    IF Len(h) = 1 /\ h[1] \in fix..(fix + 15) THEN Lit(h[1] - fix, 8)
    ELSE IF Len(h) = 3 /\ h[1] = m16 THEN <<h[3], h[2], 0, 0, 0, 0, 0, 0>>
    ELSE IF Len(h) = 5 /\ h[1] = m32 THEN <<h[5], h[4], h[3], h[2], 0, 0, 0, 0>>
    ELSE <<>>

StatedLen(op, h) ==
    IF op = "emit_map" THEN HeaderLen(h, 128, 222, 223) ELSE HeaderLen(h, 144, 220, 221)

\* The i-th call wrote what it should, where a composite of declared
\* length len should write a header stating want(len).
CallLayout(i, want(_)) ==
    /\ log[i].op \in CompositeOps => StatedLen(log[i].op, Segment(i)) = want(log[i].val)
    /\ log[i].op \in WrapperOps => Segment(i) = <<>>
    /\ log[i].op \notin CompositeOps \cup WrapperOps =>
          Segment(i) = Replay(log[i].op, log[i].val, <<>>).wr.buf
    /\ log[i].parent > 0 =>
          /\ log[i].parent < i
          /\ log[i].at >= log[log[i].parent].at + Len(Segment(log[i].parent))
          /\ Len(Segment(log[i].parent)) >= 1

DeclaredLen(len) == len

C7_composite_layout ==
    (enc /\ res.ok) => \A i \in 1..Len(log) : CallLayout(i, DeclaredLen)

\* What does hold: the same layout with each header stating the declared
\* len modulo 2^32, and the two-element sequence ["a", "bb"] on an empty
\* sink as 0x92 0xa1 0x61 0xa2 0x62 0x62.
CastLen(len) == SubSeq(len, 1, 4) \o <<0, 0, 0, 0>>

EncoderLayout ==
    /\ (enc /\ res.ok) => \A i \in 1..Len(log) : CallLayout(i, CastLen)
    /\ (/\ enc /\ res.ok /\ Len(log) = 5
        /\ log[1].op = "emit_seq" /\ log[1].val = Lit(2, 8) /\ log[1].at = 0
        /\ log[3].op = "emit_str" /\ log[3].val = <<97>>
        /\ log[5].op = "emit_str" /\ log[5].val = <<98, 98>>)
       => wr.buf = <<146, 161, 97, 162, 98, 98>>

-----------------------------------------------------------------------------
(* C8.  The sink is append-only: a successful call leaves the bytes held   *)
(* before it followed by the whole wire form it chose; a call the sink     *)
(* failed leaves them followed by the part of that wire form the sink      *)
(* accepted, a proper prefix; nothing is removed or rewritten.             *)
C8_append_only ==
    (res.op # "none") =>
        IF res.ok THEN wr.buf = res.before \o Wire
        ELSE IF Panicked THEN wr.buf = res.before
        ELSE /\ wr.bounded
             /\ res.room < Len(Wire)
             /\ wr.buf = res.before \o SubSeq(Wire, 1, res.room)

\* write_u32 failed after the marker and two payload bytes, behind earlier
\* output.
C8_witness ==
    /\ res.op = "write_u32" /\ ~res.ok
    /\ res.before = <<195, 1>>
    /\ wr.buf = <<195, 1, 206, 1, 2>>

-----------------------------------------------------------------------------
(* C9.  emit_u8/u16/u32/usize(v) write the bytes of write_uint(v as u64),  *)
(* emit_i8/i16/i32/isize(v) those of write_sint(v as i64), and these are   *)
(* the shortest wire form that holds v.  (emit_i8(5) writes [0xd0, 0x05].) *)
WidenUnsigned(v) == v \o [i \in 1..(8 - Len(v)) |-> 0]
WidenSigned(v) == v \o [i \in 1..(8 - Len(v)) |-> IF v[Len(v)] >= 128 THEN 255 ELSE 0]

C9_width_independent ==
    /\ (res.op \in {"emit_u8", "emit_u16", "emit_u32", "emit_usize"} /\ res.ok) =>
          /\ Written = write_uint(FreeSink, WidenUnsigned(res.val)).wr.buf
          /\ Len(Written) = MinUnsignedLen(WidenUnsigned(res.val))
    /\ (res.op \in {"emit_i8", "emit_i16", "emit_i32", "emit_isize"} /\ res.ok) =>
          /\ Written = write_sint(FreeSink, WidenSigned(res.val)).wr.buf
          /\ Len(Written) = MinSignedLen(WidenSigned(res.val))

-----------------------------------------------------------------------------
(* C10.  Option encoding adds no wrapper bytes: emit_option and            *)
(* emit_option_some write nothing of their own, emit_option_none writes    *)
(* the one byte 0xc0, so the value of a Some starts where the option       *)
(* started and is encoded as it is bare, and a None is one nil.            *)
C10_option_transparent ==
    /\ res.op \in {"emit_option", "emit_option_some"} => res.ok /\ wr.buf = res.before
    /\ (res.op = "emit_option_none" /\ res.ok) => Written = <<192>>
    /\ \A i \in 1..Len(log) :
          /\ log[i].op = "emit_option_some" =>
                /\ i > 1 /\ log[i - 1].op = "emit_option" /\ log[i - 1].at = log[i].at
          /\ (i > 1 /\ log[i - 1].op \in {"emit_option", "emit_option_some"}) =>
                log[i].at = log[i - 1].at
          /\ (i > 1 /\ log[i - 1].op = "emit_option_some" /\ (i < Len(log) \/ res.ok)) =>
                Segment(i) = Replay(log[i].op, log[i].val, <<>>).wr.buf

\* Some("bb") inside a sequence is the three bytes of "bb".
C10_witness ==
    /\ Len(log) = 5 /\ res.ok
    /\ log[1].op = "emit_seq" /\ log[3].op = "emit_option" /\ log[4].op = "emit_option_some"
    /\ log[5].op = "emit_str" /\ log[5].val = <<98, 98>>
    /\ Written = <<162, 98, 98>>

-----------------------------------------------------------------------------
(* C11.  write_ext_meta(len, typeid) on a sink that does not fail writes   *)
(* the header only and returns its marker: for len 1, 2, 4, 8, 16 the      *)
(* FixExt marker 0xd4..0xd8 and the type byte, no length; for any other    *)
(* len 0xc7 and a 1-byte length if len < 256, 0xc8 and 2 big-endian bytes  *)
(* if len < 65536, else 0xc9 and 4, then the type byte; the type byte is   *)
(* typeid's two's-complement byte.                                         *)
FixExtOf(n) ==
    CASE n = 1 -> <<212, "FixExt1">> [] n = 2 -> <<213, "FixExt2">>
      [] n = 4 -> <<214, "FixExt4">> [] n = 8 -> <<215, "FixExt8">>
      [] n = 16 -> <<216, "FixExt16">>

C11_write_ext_meta ==
    (res.op = "write_ext_meta" /\ res.ok) =>
        IF Below(res.val, 1) /\ res.val[1] \in {1, 2, 4, 8, 16}
        THEN /\ Written = <<FixExtOf(res.val[1])[1], res.aux[1]>>
             /\ res.ret = Mk(FixExtOf(res.val[1])[2], 0)
        ELSE IF Below(res.val, 1)
        THEN Written = <<199, res.val[1], res.aux[1]>> /\ res.ret = Mk("Ext8", 0)
        ELSE IF Below(res.val, 2)
        THEN Written = <<200>> \o BE(res.val, 2) \o res.aux /\ res.ret = Mk("Ext16", 0)
        ELSE Written = <<201>> \o BE(res.val, 4) \o res.aux /\ res.ret = Mk("Ext32", 0)

\* write_ext_meta(256, -1) wrote c8 01 00 ff after earlier output.
C11_witness ==
    /\ res.op = "write_ext_meta" /\ res.ok /\ res.val = Lit(256, 4) /\ res.aux = <<255>>
    /\ wr.buf = <<195, 1, 200, 1, 0, 255>>
    /\ res.ret = Mk("Ext16", 0)

-----------------------------------------------------------------------------------------------------------------------------------------------------
(* C12.  write_str_len(len) on a sink that does not fail returns the       *)
(* marker used and writes the byte 0xa0|len for len < 32, [0xd9, len] for  *)
(* len < 256, 0xda and 2 big-endian bytes for len < 65536, else 0xdb and   *)
(* 4; emit_str writes this header for the number of the string's UTF-8     *)
(* bytes and then exactly those bytes, emit_char as the string of its one  *)
(* code point.  (The header emit_str writes for a string of 2^32 + 2 bytes *)
(* is that of 2.)                                                          *)

\* The length a string header states, as a usize.
StrStatedLen(h) ==
    IF Len(h) = 1 /\ h[1] \in 160..191 THEN Lit(h[1] - 160, 8)
    ELSE IF Len(h) = 2 /\ h[1] = 217 THEN <<h[2], 0, 0, 0, 0, 0, 0, 0>>
    ELSE IF Len(h) = 3 /\ h[1] = 218 THEN <<h[3], h[2], 0, 0, 0, 0, 0, 0>>
    ELSE IF Len(h) = 5 /\ h[1] = 219 THEN <<h[5], h[4], h[3], h[2], 0, 0, 0, 0>>
    ELSE <<>>

\* The number of bytes of a str: its elements below 256 count one, a run
\* 2^32.
ByteCount(val) ==
    [i \in 1..8 |-> IF i = 5 THEN Cardinality({j \in DOMAIN val : val[j] = 256})
                    ELSE Digit(Cardinality({j \in DOMAIN val : val[j] # 256}), i)]

\* The UTF-8 bytes of 'a', e-acute, the euro sign and U+1F600.
Utf8Of(c) ==
    CASE c = 97 -> <<97>>
      [] c = 233 -> <<195, 169>>
      [] c = 8364 -> <<226, 130, 172>>
      [] c = 128512 -> <<240, 159, 152, 128>>

\* The bytes written are a string header stating want(number of bytes of
\* str) and then str.
StrLayout(written, str, want(_)) ==
    /\ Len(written) > Len(str)
    /\ SubSeq(written, Len(written) - Len(str) + 1, Len(written)) = str
    /\ StrStatedLen(SubSeq(written, 1, Len(written) - Len(str))) = want(ByteCount(str))

StrLenLayout ==
    (res.op = "write_str_len" /\ res.ok) =>
        IF Below(res.val, 1) /\ res.val[1] < 32
        THEN Written = <<160 + res.val[1]>> /\ res.ret = Mk("FixedString", res.val[1])
        ELSE IF Below(res.val, 1)
        THEN Written = <<217, res.val[1]>> /\ res.ret = Mk("Str8", 0)
        ELSE IF Below(res.val, 2)
        THEN Written = <<218>> \o BE(res.val, 2) /\ res.ret = Mk("Str16", 0)
        ELSE Written = <<219>> \o BE(res.val, 4) /\ res.ret = Mk("Str32", 0)

C12_str_len_and_str ==
    /\ StrLenLayout
    /\ (res.op = "emit_str" /\ res.ok) => StrLayout(Written, res.val, DeclaredLen)
    /\ (res.op = "emit_char" /\ res.ok) => StrLayout(Written, Utf8Of(res.val[1]), DeclaredLen)

\* What does hold: write_str_len as stated, and emit_str and emit_char with
\* the header stating the number of bytes modulo 2^32.
StrEncoding ==
    /\ StrLenLayout
    /\ (res.op = "emit_str" /\ res.ok) => StrLayout(Written, res.val, CastLen)
    /\ (res.op = "emit_char" /\ res.ok) => StrLayout(Written, Utf8Of(res.val[1]), CastLen)
    /\ (res.op = "emit_str" /\ res.ok /\ Len(res.val) = 32) => Written = <<217, 32>> \o res.val
    /\ (res.op = "emit_char" /\ res.ok /\ res.val = <<8364>>) =>
          Written = <<163, 226, 130, 172>>

-----------------------------------------------------------------------------
(* C13.  write_array_len(len) and write_map_len(len) on a sink that does   *)
(* not fail return the marker used and write one byte, 0x90|len for an     *)
(* array and 0x80|len for a map, when len < 16; 0xdc (array) or 0xde (map) *)
(* and 2 big-endian bytes when len < 65536; else 0xdd or 0xdf and 4.       *)
(* Neither has an 8-bit length form.                                       *)
C13_array_map_len ==
    /\ (res.op = "write_array_len" /\ res.ok) =>
          IF Below(res.val, 1) /\ res.val[1] < 16
          THEN Written = <<144 + res.val[1]>> /\ res.ret = Mk("FixedArray", res.val[1])
          ELSE IF Below(res.val, 2)
          THEN Written = <<220>> \o BE(res.val, 2) /\ res.ret = Mk("Array16", 0)
          ELSE Written = <<221>> \o BE(res.val, 4) /\ res.ret = Mk("Array32", 0)
    /\ (res.op = "write_map_len" /\ res.ok) =>
          IF Below(res.val, 1) /\ res.val[1] < 16
          THEN Written = <<128 + res.val[1]>> /\ res.ret = Mk("FixedMap", res.val[1])
          ELSE IF Below(res.val, 2)
          THEN Written = <<222>> \o BE(res.val, 2) /\ res.ret = Mk("Map16", 0)
          ELSE Written = <<223>> \o BE(res.val, 4) /\ res.ret = Mk("Map32", 0)

\* write_map_len(16) wrote the 16-bit form de 00 10 after earlier output.
C13_witness ==
    /\ res.op = "write_map_len" /\ res.ok /\ res.val = Lit(16, 4)
    /\ wr.buf = <<195, 1, 222, 0, 16>>
    /\ res.ret = Mk("Map16", 0)

-----------------------------------------------------------------------------
(* C14.  The fixed-width writers never shrink: write_u8/u16/u32/u64 and    *)
(* write_i8/i16/i32/i64 on a sink that does not fail write one marker byte *)
(* (0xcc, 0xcd, 0xce, 0xcf, resp. 0xd0, 0xd1, 0xd2, 0xd3) and then the     *)
(* value's 1, 2, 4, 8 bytes, most significant first, also when the value   *)
(* fits a fixnum.                                                          *)
FixedWidthOf(op) ==
    CASE op = "write_u8" -> <<204, 1>> [] op = "write_u16" -> <<205, 2>>
      [] op = "write_u32" -> <<206, 4>> [] op = "write_u64" -> <<207, 8>>
      [] op = "write_i8" -> <<208, 1>> [] op = "write_i16" -> <<209, 2>>
      [] op = "write_i32" -> <<210, 4>> [] op = "write_i64" -> <<211, 8>>

C14_fixed_width ==
    (/\ res.op \in { "write_u8", "write_u16", "write_u32", "write_u64",
                     "write_i8", "write_i16", "write_i32", "write_i64" }
     /\ res.ok) =>
        /\ Len(res.val) = FixedWidthOf(res.op)[2]
        /\ Written = <<FixedWidthOf(res.op)[1]>> \o BE(res.val, FixedWidthOf(res.op)[2])

\* write_u8(42) wrote cc 2a, though 42 is a positive fixnum.
C14_witness ==
    /\ res.op = "write_u8" /\ res.ok /\ res.val = <<42>>
    /\ Written = <<204, 42>>

-----------------------------------------------------------------------------
(* C15.  The length header of an Encoder composite or string states the    *)
(* declared length modulo 2^32: for emit_seq, emit_tuple, emit_struct,     *)
(* emit_map and emit_str it is the header of the true length exactly when  *)
(* that length is below 2^32; for a length of 2^32 or more the header of   *)
(* the length modulo 2^32 is written, no error is reported, and the        *)
(* elements and the payload bytes are still written.                       *)
C15_length_mod_2_32 ==
    /\ (res.op \in CompositeOps \cup {"emit_str"} /\ ~wr.bounded) => res.ok
    /\ (res.op \in CompositeOps /\ res.ok) =>
          /\ StatedLen(res.op, Written) = CastLen(res.val)
          /\ StatedLen(res.op, Written) = res.val <=> Below(res.val, 4)
    /\ (res.op = "emit_str" /\ res.ok) =>
          /\ StrLayout(Written, res.val, CastLen)
          /\ StrLayout(Written, res.val, DeclaredLen) <=> Below(ByteCount(res.val), 4)
    /\ (enc /\ res.ok) =>
          \A i \in 1..Len(log) :
              (log[i].parent > 0 /\ ~Below(log[log[i].parent].val, 4)) =>
                  CallLayout(i, CastLen)

\* emit_seq of declared length 2^32 + 2 wrote the header of 2, and its
\* first element "a" was written after it.
C15_witness ==
    /\ Len(log) = 3 /\ res.ok
    /\ log[1].op = "emit_seq" /\ log[1].val = <<2, 0, 0, 0, 1, 0, 0, 0>>
    /\ log[3].op = "emit_str" /\ log[3].val = <<97>>
    /\ wr.buf = <<146, 161, 97>>

====
